---- MODULE Spec2Model ----
(***************************************************************************)
(* A model of TuringMachine.py: the tape (a deque of cells and a head      *)
(* index), its operations right, left, read and write, the interpreter     *)
(* loop runProgram, and the two constructors of a machine, the class       *)
(* constructor and generateUnaryMachine.                                   *)
(*                                                                         *)
(* cells is a sequence (TLA+ counts from 1, the deque from 0: deque index  *)
(* i is cells[i + 1]); head is the deque index kept in self._head.         *)
(***************************************************************************)
EXTENDS Integers, Sequences, FiniteSets, TLC

VARIABLES
    cells,       \* self._cells
    head,        \* self._head
    ctor,        \* how the machine was built: the call and its arguments
    pc,          \* "idle": built, no call running; "loop": runProgram is at
                 \* its while test; "returned" / "raised": how the last call ended
    ops,         \* the calls made on the machine so far, in order
    program,     \* runProgram's argument program
    step_limit,  \* runProgram's argument step_limit
    debug,       \* runProgram's argument debug
    state,       \* runProgram's local state
    step,        \* runProgram's local step
    log,         \* runProgram's local log (empty when debug is off)
    ret          \* what runProgram returned: the log, or <<>> for None

vars == <<cells, head, ctor, pc, ops, program, step_limit, debug, state, step,
          log, ret>>

runVars == <<program, step_limit, debug, state, step, log, ret>>

(***************************************************************************)
(* Bounds of the model.                                                    *)
(***************************************************************************)
MaxLen == 2      \* longest initTape given to the constructor
MaxN == 1        \* largest distance of a move
MaxLimit == 2    \* largest step_limit drawn from the range -1..MaxLimit
MaxCalls == 2    \* most direct calls of right, left, read, write in a behaviour of Spec
MaxIter == 3     \* longest iterable given to generateUnaryMachine in SpecUnary
MaxUnary == 2    \* largest value in such an iterable
MaxLines == 2    \* most lines of a program file in SpecParse

\* the values a cell is given, by the caller or by a program
Vals == {0, 1}

\* the states a program names
States == {1, 2}

Max(a, b) == IF a >= b THEN a ELSE b

\* whether h is an index of c
ValidHead(c, h) == 0 <= h /\ h < Len(c)

(***************************************************************************)
(* The tape.                                                               *)
(***************************************************************************)

\* [0]*k
Zeros(k) == [i \in 1..k |-> 0]

\* whether a deque of length Len(c) accepts index h: Python resolves a
\* negative index h as Len(c) + h and raises IndexError outside
\* -Len(c) .. Len(c) - 1
InRange(c, h) == -Len(c) <= h /\ h < Len(c)

\* the position in c (counted from 1) that deque index h names
Index(c, h) == IF h >= 0 THEN h + 1 ELSE Len(c) + h + 1

\* faulty variants of _move: the head left negative after the tape grew on
\* the left; one cell too few appended; one cell too many prepended; the
\* zeros written over the leftmost cells instead of put before them
moveNoReanchor(c, h, num) ==
    LET h1 == h + num IN
    IF h1 < 0
    THEN [cells |-> Zeros(-h1) \o c, head |-> h1]
    ELSE IF h1 >= Len(c)
    THEN [cells |-> c \o Zeros(h1 - Len(c) + 1), head |-> h1]
    ELSE [cells |-> c, head |-> h1]

moveShortRight(c, h, num) ==
    LET h1 == h + num IN
    IF h1 < 0
    THEN [cells |-> Zeros(-h1) \o c, head |-> 0]
    ELSE IF h1 >= Len(c)
    THEN [cells |-> c \o Zeros(h1 - Len(c)), head |-> h1]
    ELSE [cells |-> c, head |-> h1]

movePrependExtra(c, h, num) ==
    LET h1 == h + num IN
    IF h1 < 0
    THEN [cells |-> Zeros(-h1 + 1) \o c, head |-> 0]
    ELSE IF h1 >= Len(c)
    THEN [cells |-> c \o Zeros(h1 - Len(c) + 1), head |-> h1]
    ELSE [cells |-> c, head |-> h1]

moveOverwrite(c, h, num) ==
    LET h1 == h + num IN
    IF h1 < 0
    THEN [cells |-> [i \in 1..Max(Len(c), -h1) |->
                        IF i <= -h1 THEN 0 ELSE c[i]],
          head |-> 0]
    ELSE IF h1 >= Len(c)
    THEN [cells |-> c \o Zeros(h1 - Len(c) + 1), head |-> h1]
    ELSE [cells |-> c, head |-> h1]

\* _move: the cells and the head after moving the head by num
move(c, h, num) ==
    LET h1 == h + num IN
    IF h1 < 0
    THEN [cells |-> Zeros(-h1) \o c, head |-> 0]
    ELSE IF h1 >= Len(c)
    THEN [cells |-> c \o Zeros(h1 - Len(c) + 1), head |-> h1]
    ELSE [cells |-> c, head |-> h1]

right(c, h, num) == move(c, h, num)

left(c, h, num) == move(c, h, -num)

\* a faulty variant of read: the first cell instead of the cell at the head
readFirst(c, h) == c[1]

\* read and write, where the index is accepted
read(c, h) == c[Index(c, h)]

\* a faulty variant of write: the first cell instead of the cell at the head
writeFirst(c, h, val) == [c EXCEPT ![1] = val]

write(c, h, val) == [c EXCEPT ![Index(c, h)] = val]

(***************************************************************************)
(* The constructors.                                                       *)
(***************************************************************************)
RECURSIVE UnaryTapeShort(_)
\* a faulty variant of generateUnaryMachine's list: val ones instead of val + 1
UnaryTapeShort(iterable) ==
    IF iterable = <<>> THEN <<>>
    ELSE [i \in 1..Head(iterable) |-> 1] \o <<0>> \o UnaryTapeShort(Tail(iterable))

RECURSIVE UnaryTape(_)
\* the list generateUnaryMachine builds from iterable
UnaryTape(iterable) ==
    IF iterable = <<>> THEN <<>>
    ELSE [i \in 1..(Head(iterable) + 1) |-> 1] \o <<0>> \o UnaryTape(Tail(iterable))

SeqsUpTo(S, n) == UNION {[1..k -> S] : k \in 0..n}

InitTapes == SeqsUpTo(Vals, MaxLen)

\* initHead ranges over the valid indices of the tape and one index beyond
\* each end
InitHeads(t) == (-1)..Len(t)

Iterables == SeqsUpTo({0, 1}, 1) \cup {<<2, 0, 1>>}

\* TuringMachine(initTape, initHead)
TuringMachine(initTape, initHead) ==
    /\ cells = initTape
    /\ head = initHead
    /\ ctor = [fn |-> "TuringMachine", arg |-> initTape, initHead |-> initHead]

\* generateUnaryMachine(iterable)
generateUnaryMachine(iterable) ==
    /\ cells = UnaryTape(iterable)
    /\ head = 0
    /\ ctor = [fn |-> "generateUnaryMachine", arg |-> iterable, initHead |-> 0]

\* the cells the machine was built with
InitCells == IF ctor.fn = "TuringMachine" THEN ctor.arg ELSE UnaryTape(ctor.arg)

Init ==
    /\ \/ \E t \in InitTapes : \E h \in InitHeads(t) : TuringMachine(t, h)
       \/ \E it \in Iterables : generateUnaryMachine(it)
    /\ pc = "idle"
    /\ ops = <<>>
    /\ program = <<>>
    /\ step_limit = 0
    /\ debug = FALSE
    /\ state = 0
    /\ step = 0
    /\ log = <<>>
    /\ ret = <<>>

(***************************************************************************)
(* Direct calls of the tape's operations.  Each call is recorded in ops    *)
(* with its argument and what it returned (<<>> for None).                 *)
(***************************************************************************)
Call(op, arg, r) == [op |-> op, arg |-> arg, ret |-> r]

CallRight(num) ==
    /\ pc = "idle"
    /\ cells' = right(cells, head, num).cells
    /\ head' = right(cells, head, num).head
    /\ ops' = Append(ops, Call("right", num, <<>>))
    /\ UNCHANGED <<ctor, pc, runVars>>

CallLeft(num) ==
    /\ pc = "idle"
    /\ cells' = left(cells, head, num).cells
    /\ head' = left(cells, head, num).head
    /\ ops' = Append(ops, Call("left", num, <<>>))
    /\ UNCHANGED <<ctor, pc, runVars>>

CallRead ==
    /\ pc = "idle"
    /\ IF InRange(cells, head)
       THEN /\ ops' = Append(ops, Call("read", 0, <<read(cells, head)>>))
            /\ pc' = pc
       ELSE /\ ops' = Append(ops, Call("read", 0, <<>>))
            /\ pc' = "raised"
    /\ UNCHANGED <<cells, head, ctor, runVars>>

CallWrite(val) ==
    /\ pc = "idle"
    /\ ops' = Append(ops, Call("write", val, <<>>))
    /\ IF InRange(cells, head)
       THEN /\ cells' = write(cells, head, val)
            /\ pc' = pc
       ELSE /\ cells' = cells
            /\ pc' = "raised"
    /\ UNCHANGED <<head, ctor, runVars>>

(***************************************************************************)
(* Programs: the table entries and the tables a run is given.              *)
(***************************************************************************)
Entry(kind, param, next) == <<kind, param, next>>

\* the entries of the tables: moves by 1..MaxN cells, writes of a value, and
\* entries of a kind "X" that is none of "R", "L", "W"
Entries ==
    {Entry(k, n, s) : k \in {"R", "L"}, n \in 1..MaxN, s \in States}
    \cup {Entry("W", v, s) : v \in Vals, s \in States}
    \cup {Entry("X", 0, s) : s \in States}

\* every table over the keys of state 1
OneStatePrograms ==
    UNION {[D -> Entries] : D \in SUBSET ({1} \X Vals)}

\* tables that leave state 1 by a move over a 0 and go on in state 2
TwoStatePrograms ==
    {[k \in {<<1, 0>>, <<2, 0>>} |->
        IF k = <<1, 0>> THEN Entry(m, n, 2) ELSE e] :
            m \in {"R", "L"}, n \in 1..MaxN, e \in Entries}

Programs == OneStatePrograms \cup TwoStatePrograms

StepLimits == ((-1)..MaxLimit) \cup {10}

(***************************************************************************)
(* runProgram.                                                             *)
(***************************************************************************)
Snapshot(s, h, c) == [state |-> s, head |-> h, tape |-> c]

\* a faulty variant of runProgram's entry: the log starts empty, without the
\* snapshot of the initial configuration
runProgramNoFirstSnapshot(prog, limit, dbg) ==
    /\ pc = "idle"
    /\ ops = <<>>
    /\ program' = prog
    /\ step_limit' = limit
    /\ debug' = dbg
    /\ state' = 1
    /\ step' = 0
    /\ log' = <<>>
    /\ ops' = Append(ops, Call("runProgram", limit, <<>>))
    /\ pc' = "loop"
    /\ UNCHANGED <<cells, head, ctor, ret>>

\* the entry of runProgram up to its while test; it runs on a machine as
\* built (the constructor takes every tape and head, so nothing is lost)
runProgram(prog, limit, dbg) ==
    /\ pc = "idle"
    /\ ops = <<>>
    /\ program' = prog
    /\ step_limit' = limit
    /\ debug' = dbg
    /\ state' = 1
    /\ step' = 0
    /\ log' = IF dbg THEN <<Snapshot(1, head, cells)>> ELSE <<>>
    /\ ops' = Append(ops, Call("runProgram", limit, <<>>))
    /\ pc' = "loop"
    /\ UNCHANGED <<cells, head, ctor, ret>>

\* faulty variants of the while test: one iteration too many, and one too few
LoopTestOneMore == <<state, read(cells, head)>> \in DOMAIN program /\ step <= step_limit

LoopTestOneLess == <<state, read(cells, head)>> \in DOMAIN program /\ step < step_limit - 1

\* the while test: (state, self.read()) in program and step < step_limit
LoopTest == <<state, read(cells, head)>> \in DOMAIN program /\ step < step_limit

\* a faulty variant of the dispatch: "R" and "L" exchanged
ApplySwapped(tup) ==
    IF tup[1] = "L" THEN right(cells, head, tup[2])
    ELSE IF tup[1] = "R" THEN left(cells, head, tup[2])
    ELSE IF tup[1] = "W" THEN [cells |-> write(cells, head, tup[2]), head |-> head]
    ELSE [cells |-> cells, head |-> head]

\* a faulty variant of the dispatch: an entry of any other kind is run as a
\* write of its parameter
ApplyElseWrites(tup) ==
    IF tup[1] = "R" THEN right(cells, head, tup[2])
    ELSE IF tup[1] = "L" THEN left(cells, head, tup[2])
    ELSE [cells |-> write(cells, head, tup[2]), head |-> head]

\* the tape after the action of table entry tup
Apply(tup) ==
    IF tup[1] = "R" THEN right(cells, head, tup[2])
    ELSE IF tup[1] = "L" THEN left(cells, head, tup[2])
    ELSE IF tup[1] = "W" THEN [cells |-> write(cells, head, tup[2]), head |-> head]
    ELSE [cells |-> cells, head |-> head]

\* a faulty variant of the loop body: the log entries hold the deque itself
\* instead of a copy, so every entry's tape is the current tape
LoopBodyAliased ==
    /\ pc = "loop"
    /\ InRange(cells, head)
    /\ LoopTest
    /\ LET tup == program[<<state, read(cells, head)>>]
           after == Apply(tup)
       IN  /\ cells' = after.cells
           /\ head' = after.head
           /\ state' = tup[3]
           /\ log' = IF debug
                     THEN [i \in 1..(Len(log) + 1) |->
                             IF i <= Len(log)
                             THEN Snapshot(log[i].state, log[i].head, after.cells)
                             ELSE Snapshot(tup[3], after.head, after.cells)]
                     ELSE log
    /\ step' = step + 1
    /\ UNCHANGED <<ctor, pc, ops, program, step_limit, debug, ret>>

\* a faulty variant of the loop body: a traced iteration counts as two steps
LoopBodyTraceCounts ==
    /\ pc = "loop"
    /\ InRange(cells, head)
    /\ LoopTest
    /\ LET tup == program[<<state, read(cells, head)>>]
           after == Apply(tup)
       IN  /\ cells' = after.cells
           /\ head' = after.head
           /\ state' = tup[3]
           /\ log' = IF debug
                     THEN Append(log, Snapshot(tup[3], after.head, after.cells))
                     ELSE log
    /\ step' = IF debug THEN step + 2 ELSE step + 1
    /\ UNCHANGED <<ctor, pc, ops, program, step_limit, debug, ret>>

\* one iteration of the while loop
LoopBody ==
    /\ pc = "loop"
    /\ InRange(cells, head)
    /\ LoopTest
    /\ LET tup == program[<<state, read(cells, head)>>]
           after == Apply(tup)
       IN  /\ cells' = after.cells
           /\ head' = after.head
           /\ state' = tup[3]
           /\ log' = IF debug
                     THEN Append(log, Snapshot(tup[3], after.head, after.cells))
                     ELSE log
    /\ step' = step + 1
    /\ UNCHANGED <<ctor, pc, ops, program, step_limit, debug, ret>>

\* the while test fails: the loop is left and runProgram returns
LoopExit ==
    /\ pc = "loop"
    /\ InRange(cells, head)
    /\ ~LoopTest
    /\ ret' = IF debug THEN log ELSE <<>>
    /\ pc' = "returned"
    /\ UNCHANGED <<cells, head, ctor, ops, program, step_limit, debug, state,
                   step, log>>

\* the while test's self.read() raises IndexError
LoopRaise ==
    /\ pc = "loop"
    /\ ~InRange(cells, head)
    /\ pc' = "raised"
    /\ UNCHANGED <<cells, head, ctor, ops, runVars>>

Loop == LoopBody \/ LoopExit \/ LoopRaise

\* runProgram(prog, limit) with debug = False, as one function: the
\* configuration in which the call started with cells c, head h, state s and
\* step k leaves the loop, or raises IndexError in the while test
RECURSIVE runUntraced(_, _, _, _, _, _)
runUntraced(c, h, s, k, prog, limit) ==
    IF ~InRange(c, h)
    THEN [cells |-> c, head |-> h, state |-> s, step |-> k, raised |-> TRUE]
    ELSE IF <<s, read(c, h)>> \in DOMAIN prog /\ k < limit
    THEN LET tup == prog[<<s, read(c, h)>>]
             after == IF tup[1] = "R" THEN right(c, h, tup[2])
                      ELSE IF tup[1] = "L" THEN left(c, h, tup[2])
                      ELSE IF tup[1] = "W"
                      THEN [cells |-> write(c, h, tup[2]), head |-> h]
                      ELSE [cells |-> c, head |-> h]
         IN runUntraced(after.cells, after.head, tup[3], k + 1, prog, limit)
    ELSE [cells |-> c, head |-> h, state |-> s, step |-> k, raised |-> FALSE]

\* whether the caller may still make a direct call on the tape
Budget == Len(ops) < MaxCalls

Next ==
    \/ Budget /\ \E num \in 0..MaxN : CallRight(num)
    \/ Budget /\ \E num \in 0..MaxN : CallLeft(num)
    \/ Budget /\ CallRead
    \/ Budget /\ \E val \in Vals : CallWrite(val)
    \/ /\ pc = "idle"
       /\ \E prog \in Programs : \E limit \in StepLimits : \E dbg \in BOOLEAN :
              runProgram(prog, limit, dbg)
    \/ LoopBody
    \/ LoopExit
    \/ LoopRaise

Spec == Init /\ [][Next]_vars

\* runProgram is a synchronous loop: once called it keeps running
SpecLive == Spec /\ WF_vars(Loop)

\* the iterables generateUnaryMachine is given in SpecUnary
UnaryInputs == SeqsUpTo(0..MaxUnary, MaxIter)

\* a machine built by generateUnaryMachine
InitUnary ==
    /\ \E it \in UnaryInputs : generateUnaryMachine(it)
    /\ pc = "idle"
    /\ ops = <<>>
    /\ program = <<>>
    /\ step_limit = 0
    /\ debug = FALSE
    /\ state = 0
    /\ step = 0
    /\ log = <<>>
    /\ ret = <<>>

\* direct calls on the machine so built
NextUnary ==
    \/ Budget /\ \E num \in 0..MaxN : CallRight(num)
    \/ Budget /\ \E num \in 0..MaxN : CallLeft(num)
    \/ Budget /\ CallRead
    \/ Budget /\ \E val \in Vals : CallWrite(val)

SpecUnary == InitUnary /\ [][NextUnary]_vars

\* a caller that writes a value, then reads it at once or after moving the
\* head away by some distance and back by the same distance
NextRoundTrip ==
    \/ ops = <<>> /\ \E val \in Vals : CallWrite(val)
    \/ Len(ops) = 1 /\ \E num \in 0..MaxN : CallLeft(num)
    \/ Len(ops) = 1 /\ \E num \in 0..MaxN : CallRight(num)
    \/ Len(ops) = 2 /\ ops[2].op = "left" /\ CallRight(ops[2].arg)
    \/ Len(ops) = 2 /\ ops[2].op = "right" /\ CallLeft(ops[2].arg)
    \/ Len(ops) \in {1, 3} /\ CallRead

SpecRoundTrip == Init /\ [][NextRoundTrip]_vars

(***************************************************************************)
(* Notions the properties share.                                           *)
(***************************************************************************)
\* the last call made on the machine
LastCall == ops[Len(ops)]

\* a run of runProgram is under way or over
InRun == Len(ops) > 0 /\ LastCall.op = "runProgram"

\* the machine was built with its head on a cell
StartValid == ValidHead(InitCells, ctor.initHead)

\* the key the while test looks up
Key == <<state, read(cells, head)>>

\* this step is one iteration of runProgram's loop
IsIteration == pc = "loop" /\ step' = step + 1

\* c2 is c with only zero cells added, before cells on the left and any
\* number on the right
Extends(c, c2, before) ==
    /\ before >= 0
    /\ Len(c2) >= Len(c) + before
    /\ \A i \in 1..Len(c) : c2[i + before] = c[i]
    /\ \A i \in 1..Len(c2) : (i <= before \/ i > before + Len(c)) => c2[i] = 0

\* the tables of the two examples
WriteThenRight == (<<1, 0>> :> Entry("W", 1, 1)) @@ (<<1, 1>> :> Entry("R", 1, 2))

RightForever == (<<1, 0>> :> Entry("R", 1, 1))

(***************************************************************************)
(* C1: every iteration of runProgram that starts with the head on a cell   *)
(* applies exactly the action of the entry for (state, cell under the      *)
(* head): "R" moves the head right by the parameter (the tape growing by   *)
(* zeros when needed), "L" moves it left by the parameter (zeros being     *)
(* prepended and the head set to 0 when it would pass the left end), "W"   *)
(* writes the parameter under the head; then state is the entry's next     *)
(* state.  And the table {(1,0): (W,1,1), (1,1): (R,1,2)} on the tape [0]  *)
(* with step limit 10 returns after 2 transitions with head = 1, cells =   *)
(* [1, 0] and state 2.                                                     *)
(***************************************************************************)
C1_Iteration ==
    (IsIteration /\ ValidHead(cells, head)) =>
        LET tup == program[<<state, cells[head + 1]>>]
            n == tup[2]
        IN  /\ state' = tup[3]
            /\ tup[1] = "R" =>
                  /\ head' = head + n
                  /\ Len(cells') = Max(Len(cells), head + n + 1)
                  /\ Extends(cells, cells', 0)
            /\ tup[1] = "L" =>
                  IF head - n >= 0
                  THEN head' = head - n /\ cells' = cells
                  ELSE head' = 0 /\ cells' = Zeros(n - head) \o cells
            /\ tup[1] = "W" =>
                  /\ head' = head
                  /\ cells' = [cells EXCEPT ![head + 1] = n]

C1_ExampleRun ==
    /\ pc = "returned"
    /\ program = WriteThenRight
    /\ InitCells = <<0>>
    /\ ctor.initHead = 0
    /\ step_limit = 10

C1_Example ==
    C1_ExampleRun => (step = 2 /\ head = 1 /\ cells = <<1, 0>> /\ state = 2)

C1_Dispatch == [][C1_Iteration /\ C1_Example']_vars

C1_Witness == C1_ExampleRun /\ step = 2 /\ cells = <<1, 0>>

(***************************************************************************)
(* C2: for step_limit >= 0, runProgram runs an iteration only when the     *)
(* program has an entry for (state, read()) and step < step_limit, it      *)
(* returns only when there is no such entry or step = step_limit, and the  *)
(* number of executed transitions never exceeds step_limit.                *)
(***************************************************************************)
C2_Step ==
    /\ IsIteration => (Key \in DOMAIN program /\ step < step_limit)
    /\ (pc = "loop" /\ pc' = "returned" /\ step_limit >= 0) =>
          /\ Key \notin DOMAIN program \/ step = step_limit
          /\ step' = step
    /\ (InRun' /\ step_limit' >= 0) => step' <= step_limit'

C2_StopsAtFirst == [][C2_Step]_vars

C2_Witness ==
    /\ pc = "returned"
    /\ step = step_limit
    /\ step > 0
    /\ Key \in DOMAIN program

(***************************************************************************)
(* C3: a call of runProgram on a tape whose head is on a cell terminates:  *)
(* it returns, after at most step_limit iterations (after none when        *)
(* step_limit is negative), whatever the program.                          *)
(***************************************************************************)
C3_Terminates ==
    (pc = "loop" /\ ValidHead(cells, head))
        ~> (pc = "returned" /\ step <= Max(step_limit, 0))

C3_Witness ==
    /\ pc = "returned"
    /\ StartValid
    /\ step_limit = 10
    /\ step = 10
    /\ Key \in DOMAIN program

(***************************************************************************)
(* C4: for step_limit >= 0, a run whose program still has an applicable    *)
(* transition when it returns has executed exactly step_limit transitions; *)
(* with the table {(1,0): (R,1,1)} on an all-zero tape, head on a cell,    *)
(* the head ends step_limit cells to the right of where it started.        *)
(***************************************************************************)
C4_ZeroTape == StartValid /\ \A i \in 1..Len(InitCells) : InitCells[i] = 0

C4_ExactBudget ==
    (pc = "returned" /\ step_limit >= 0) =>
        /\ Key \in DOMAIN program => step = step_limit
        /\ (program = RightForever /\ C4_ZeroTape) =>
              /\ step = step_limit
              /\ head = ctor.initHead + step_limit

C4_Witness ==
    /\ pc = "returned"
    /\ program = RightForever
    /\ C4_ZeroTape
    /\ step_limit = 10
    /\ head = ctor.initHead + 10

(***************************************************************************)
(* C5: when the program has no entry for (1, value under the head) at the  *)
(* start of runProgram, the run performs no transition and leaves the      *)
(* cells, their number and the head as they were; with tracing it returns  *)
(* the trace holding only the initial snapshot.                            *)
(***************************************************************************)
C5_NoEntryAtStart ==
    /\ InRun
    /\ InRange(InitCells, ctor.initHead)
    /\ <<1, InitCells[Index(InitCells, ctor.initHead)]>> \notin DOMAIN program

C5_NoTransition ==
    C5_NoEntryAtStart =>
        /\ step = 0
        /\ cells = InitCells
        /\ head = ctor.initHead
        /\ pc = "returned" =>
              ret = IF debug THEN <<Snapshot(1, ctor.initHead, InitCells)>> ELSE <<>>

C5_Witness ==
    /\ C5_NoEntryAtStart
    /\ pc = "returned"
    /\ debug
    /\ step_limit > 0
    /\ program # <<>>
    /\ ctor.initHead = 1

(***************************************************************************)
(* C6: after every call of right(n) or left(n), n >= 0, from every tape    *)
(* state (the head on a cell or not), 0 <= head < len(cells).              *)
(***************************************************************************)
C6_HeadValidAfterMove ==
    (Len(ops) > 0 /\ LastCall.op \in {"right", "left"}) => ValidHead(cells, head)

C6_Witness ==
    /\ Len(ops) = 1
    /\ LastCall.op = "right"
    /\ LastCall.arg = 0
    /\ ctor.initHead >= Len(InitCells)
    /\ ValidHead(cells, head)

(***************************************************************************)
(* C7: a call of left(n) or right(n) on a tape with the head on a cell     *)
(* adds exactly the cells needed, all zero: when h = head - n < 0, |h|     *)
(* zeros are prepended and head becomes 0; when h = head + n >=            *)
(* len(cells), h - len(cells) + 1 zeros are appended and head becomes h,   *)
(* the last index; otherwise no cell is added and head becomes h.          *)
(***************************************************************************)
C7_Step ==
    (Len(ops') = Len(ops) + 1 /\ ValidHead(cells, head)) =>
        LET call == ops'[Len(ops')]
            n == call.arg
        IN  /\ call.op = "left" =>
                  IF head - n < 0
                  THEN /\ cells' = Zeros(n - head) \o cells
                       /\ head' = 0
                  ELSE /\ cells' = cells
                       /\ head' = head - n
            /\ call.op = "right" =>
                  IF head + n >= Len(cells)
                  THEN /\ cells' = cells \o Zeros(head + n - Len(cells) + 1)
                       /\ head' = head + n
                       /\ head' = Len(cells') - 1
                  ELSE /\ cells' = cells
                       /\ head' = head + n

C7_ExactExtension == [][C7_Step]_vars

C7_Witness ==
    /\ Len(ops) = 2
    /\ ops[1].op = "right" /\ ops[1].arg = MaxN
    /\ ops[2].op = "left" /\ ops[2].arg = MaxN
    /\ ctor.initHead = 0
    /\ InitCells = <<1>>
    /\ cells = <<1>> \o Zeros(MaxN)
    /\ head = 0

(***************************************************************************)
(* C8: runProgram never raises and never reads or writes outside           *)
(* [0, len(cells)), for every machine built by the constructor or by       *)
(* generateUnaryMachine and every program.                                 *)
(***************************************************************************)
C8_Step == pc = "loop" => (ValidHead(cells, head) /\ pc' # "raised")

C8_NeverRaises == [][C8_Step]_vars

(***************************************************************************)
(* C9: from a tape with the head on a cell, write(x) followed by read()    *)
(* returns x, and so does write(x), left(n), right(n), read() and          *)
(* write(x), right(n), left(n), read(), also when the move away makes the  *)
(* tape grow on the left and the head index become 0.                      *)
(***************************************************************************)
C9_RoundTrip ==
    (StartValid /\ Len(ops) > 1 /\ ops[1].op = "write" /\ LastCall.op = "read") =>
        LastCall.ret = <<ops[1].arg>>

C9_Witness ==
    /\ StartValid
    /\ Len(ops) = 4
    /\ ops[1].op = "write" /\ ops[1].arg = 1
    /\ ops[2].op = "left" /\ ops[2].arg > ctor.initHead
    /\ ops[3].op = "right"
    /\ LastCall.op = "read" /\ LastCall.ret = <<1>>
    /\ Len(cells) > Len(InitCells)

(***************************************************************************)
(* C10: the tape never shrinks: no step of right, left, write, read or     *)
(* runProgram makes len(cells) smaller; and across a move every cell keeps *)
(* its value and its place among the others, the new cells being zeros at *)
(* the two ends.                                                           *)
(***************************************************************************)
C10_IsMove ==
    \/ Len(ops') = Len(ops) + 1 /\ ops'[Len(ops')].op \in {"right", "left"}
    \/ IsIteration /\ program[Key][1] \in {"R", "L"}

C10_Step ==
    /\ Len(cells') >= Len(cells)
    /\ C10_IsMove =>
          \E before \in 0..(Len(cells') - Len(cells)) : Extends(cells, cells', before)

C10_NeverShrinks == [][C10_Step]_vars

C10_Witness ==
    /\ InRun
    /\ step = 2
    /\ Len(cells) = Len(InitCells) + 1
    /\ \E i \in 1..Len(InitCells) : InitCells[i] = 1
    /\ head = 0
    /\ ctor.initHead = 1

(***************************************************************************)
(* C11: with debug on, the trace has (number of executed transitions) + 1  *)
(* entries, during the run and when it is returned, and its first entry is *)
(* the initial configuration: state 1, the initial head and the initial    *)
(* cells.                                                                  *)
(***************************************************************************)
C11_TraceLength ==
    (InRun /\ debug /\ pc \in {"loop", "returned"}) =>
        /\ Len(log) = step + 1
        /\ log[1] = Snapshot(1, ctor.initHead, InitCells)
        /\ pc = "returned" => ret = log

C11_Witness ==
    /\ InRun /\ debug /\ pc = "returned"
    /\ step = 2
    /\ Len(ret) = 3
    /\ cells # InitCells

(***************************************************************************)
(* C12: for every i >= 1, trace entry i is the configuration right after   *)
(* the i-th transition: its state is the next state of the table entry     *)
(* matched on (state, cell under the head) of trace entry i - 1, and its   *)
(* head and tape are those the entry's action gives from trace entry       *)
(* i - 1.  An entry once in the trace never changes.                       *)
(***************************************************************************)
C12_After(prev, tup) ==
    IF tup[1] = "R" THEN right(prev.tape, prev.head, tup[2])
    ELSE IF tup[1] = "L" THEN left(prev.tape, prev.head, tup[2])
    ELSE IF tup[1] = "W"
    THEN [cells |-> write(prev.tape, prev.head, tup[2]), head |-> prev.head]
    ELSE [cells |-> prev.tape, head |-> prev.head]

C12_Chain ==
    \A i \in 2..Len(log) :
        LET prev == log[i - 1]
            key == <<prev.state, read(prev.tape, prev.head)>>
        IN  /\ key \in DOMAIN program
            /\ log[i].state = program[key][3]
            /\ log[i].tape = C12_After(prev, program[key]).cells
            /\ log[i].head = C12_After(prev, program[key]).head

C12_Kept == \A i \in 1..Len(log) : Len(log') >= i /\ log'[i] = log[i]

C12_TraceSteps == [][C12_Kept /\ C12_Chain']_vars

C12_Witness ==
    /\ InRun /\ debug /\ pc = "returned"
    /\ Len(ret) = 3
    /\ ret[1].tape # ret[2].tape
    /\ ret[2].tape # ret[3].tape
    /\ ret[3].state = 2

(***************************************************************************)
(* C13, as stated: after runProgram returns, the number of executed        *)
(* transitions equals step_limit if and only if the run was stopped by the *)
(* step budget, that is a transition for the final (state, cell under the  *)
(* head) still exists.  Stated for the runs most favourable to it: the     *)
(* machine built with its head on a cell, and step_limit >= 0.             *)
(***************************************************************************)
C13_Iff ==
    (pc = "returned" /\ StartValid /\ step_limit >= 0) =>
        (step = step_limit <=> Key \in DOMAIN program)

(***************************************************************************)
(* C13, amended: after runProgram returns with step_limit >= 0, a run      *)
(* stopped by the step budget (a transition for the final (state, cell     *)
(* under the head) still exists) has executed exactly step_limit           *)
(* transitions, and a run that executed a number of transitions other than *)
(* step_limit executed fewer and halted for lack of a transition.  A run   *)
(* may also halt for lack of a transition after exactly step_limit         *)
(* transitions, so an equal count does not tell the two apart.             *)
(***************************************************************************)
C13_BudgetStop ==
    (pc = "returned" /\ step_limit >= 0) =>
        /\ Key \in DOMAIN program => step = step_limit
        /\ step # step_limit => (step < step_limit /\ Key \notin DOMAIN program)

C13_Witness ==
    /\ pc = "returned"
    /\ step_limit = 1
    /\ step = 1
    /\ Key \in DOMAIN program
    /\ debug

(***************************************************************************)
(* C14: generateUnaryMachine turns v1..vk into a machine whose cells are,  *)
(* in order, for each vi exactly vi + 1 ones followed by one zero, with    *)
(* head = 0; the tape has sum (vi + 2) cells, and [2, 0, 1] gives          *)
(* 1 1 1 0 1 0 1 1 0.                                                      *)
(***************************************************************************)
RECURSIVE C14_Offset(_, _)
\* the number of cells taken by the values before the k-th
C14_Offset(it, k) == IF k <= 1 THEN 0 ELSE C14_Offset(it, k - 1) + it[k - 1] + 2

C14_UnaryEncoding ==
    (ctor.fn = "generateUnaryMachine" /\ ops = <<>>) =>
        LET it == ctor.arg IN
        /\ head = 0
        /\ Len(cells) = C14_Offset(it, Len(it) + 1)
        /\ \A k \in 1..Len(it) :
              /\ \A j \in 1..(it[k] + 1) : cells[C14_Offset(it, k) + j] = 1
              /\ cells[C14_Offset(it, k) + it[k] + 2] = 0
        /\ it = <<2, 0, 1>> => cells = <<1, 1, 1, 0, 1, 0, 1, 1, 0>>

C14_Witness ==
    /\ ctor.fn = "generateUnaryMachine"
    /\ ctor.arg = <<2, 0, 1>>
    /\ ops = <<>>
    /\ cells = <<1, 1, 1, 0, 1, 0, 1, 1, 0>>
    /\ head = 0

(***************************************************************************)
(* readMinimalProgram.  A file is a sequence of lines and a line a         *)
(* sequence of characters; csv.reader with delimiter ' ' turns a line into *)
(* a row of fields, int() turns a field of decimal digits into a number.   *)
(* A call that raises returns nothing.                                     *)
(***************************************************************************)
Digits == <<"0", "1", "2", "3", "4", "5", "6", "7", "8", "9">>

IsDigit(ch) == \E d \in 1..10 : Digits[d] = ch

DigitVal(ch) == (CHOOSE d \in 1..10 : Digits[d] = ch) - 1

\* int(tok) succeeds: the field is a non-empty run of digits
IsInt(tok) == Len(tok) > 0 /\ \A i \in 1..Len(tok) : IsDigit(tok[i])

RECURSIVE int(_)
int(tok) ==
    IF Len(tok) = 0 THEN 0
    ELSE 10 * int(SubSeq(tok, 1, Len(tok) - 1)) + DigitVal(tok[Len(tok)])

\* the decimal numeral of a non-negative integer, as a file's author writes it
RECURSIVE str(_)
str(n) ==
    IF n < 10 THEN <<Digits[n + 1]>>
    ELSE str(n \div 10) \o <<Digits[(n % 10) + 1]>>

\* the fields of a non-empty line: the runs between single spaces
RECURSIVE Fields(_)
Fields(line) ==
    IF \E i \in 1..Len(line) : line[i] = " "
    THEN LET i == CHOOSE k \in 1..Len(line) :
                      /\ line[k] = " "
                      /\ \A j \in 1..(k - 1) : line[j] # " "
         IN <<SubSeq(line, 1, i - 1)>> \o Fields(SubSeq(line, i + 1, Len(line)))
    ELSE <<line>>

\* the row csv.reader yields for a line: no field at all for an empty line
csvRow(line) == IF Len(line) = 0 THEN <<>> ELSE Fields(line)

\* evaluating the assignment of one row raises IndexError or ValueError
RowRaises(r) ==
    \/ Len(r) < 4
    \/ ~IsInt(r[4])
    \/ ~IsInt(r[1])
    \/ ~IsInt(r[2])

RowKey(r) == <<int(r[1]), int(r[2])>>

\* variants of RowEntry: every action but R and L writes 0; an action token
\* that is not recognised is kept as the kind of the entry
RowEntryWriteZero(r) ==
    Entry(IF r[3] \in {<<"R">>, <<"L">>} THEN r[3][1] ELSE "W", 0, int(r[4]))

RowEntryKeepToken(r) ==
    Entry(IF r[3] \in {<<"0">>, <<"1">>} THEN "W" ELSE r[3][1],
          IF r[3] = <<"0">> THEN 0 ELSE 1,
          int(r[4]))

RowEntry(r) ==
    Entry(IF r[3] \in {<<"R">>, <<"L">>} THEN r[3][1] ELSE "W",
          IF r[3] = <<"0">> THEN 0 ELSE 1,
          int(r[4]))

\* prog[key] = entry
SetItem(prog, key, entry) ==
    [k \in (DOMAIN prog) \cup {key} |-> IF k = key THEN entry ELSE prog[k]]

RECURSIVE readRows(_, _)
readRows(rows, prog) ==
    IF Len(rows) = 0 THEN [raised |-> FALSE, prog |-> prog]
    ELSE LET r == Head(rows) IN
         IF Len(r) = 0 THEN readRows(Tail(rows), prog)
         ELSE IF RowRaises(r) THEN [raised |-> TRUE, prog |-> prog]
         ELSE readRows(Tail(rows), SetItem(prog, RowKey(r), RowEntry(r)))

readMinimalProgram(text) ==
    readRows([i \in 1..Len(text) |-> csvRow(text[i])], <<>>)

\* The lines a file is written from: an instruction with state s, value v,
\* action token a and new state n; a blank line; an instruction without its
\* new state; an instruction whose state is not a numeral.
Actions == {<<"R">>, <<"L">>, <<"0">>, <<"1">>, <<"2">>, <<"X">>, <<"r">>, <<"0", "0">>}

Line(form, s, v, a, n) == [form |-> form, s |-> s, v |-> v, a |-> a, n |-> n]

ProgramLines ==
    {Line("entry", s, v, a, n) : s \in {1, 12}, v \in Vals, a \in Actions, n \in States}
    \cup {Line("blank", 0, 0, <<>>, 0), Line("short", 1, 0, <<"R">>, 0),
          Line("badint", 0, 0, <<"R">>, 1)}

LineText(l) ==
    CASE l.form = "entry" ->
            str(l.s) \o <<" ">> \o str(l.v) \o <<" ">> \o l.a \o <<" ">> \o str(l.n)
      [] l.form = "blank" -> <<>>
      [] l.form = "short" -> str(l.s) \o <<" ">> \o str(l.v) \o <<" ">> \o l.a
      [] l.form = "badint" ->
            <<"X">> \o <<" ">> \o str(l.v) \o <<" ">> \o l.a \o <<" ">> \o str(l.n)

FileText(lines) == [i \in 1..Len(lines) |-> LineText(lines[i])]

ProgramFiles == SeqsUpTo(ProgramLines, MaxLines)

\* readMinimalProgram(filename) on a file written from the given lines
CallReadMinimalProgram(lines) ==
    LET r == readMinimalProgram(FileText(lines)) IN
    /\ pc = "idle"
    /\ ops = <<>>
    /\ ops' = <<Call("readMinimalProgram", lines,
                     IF r.raised THEN <<>> ELSE <<r.prog>>)>>
    /\ pc' = IF r.raised THEN "raised" ELSE "idle"
    /\ UNCHANGED <<cells, head, ctor, runVars>>

\* a caller that reads one program file, next to a machine built with the
\* constructor's defaults
InitParse ==
    /\ TuringMachine(<<0>>, 0)
    /\ pc = "idle"
    /\ ops = <<>>
    /\ program = <<>>
    /\ step_limit = 0
    /\ debug = FALSE
    /\ state = 0
    /\ step = 0
    /\ log = <<>>
    /\ ret = <<>>

NextParse ==
    pc = "idle" /\ ops = <<>> /\ \E lines \in ProgramFiles : CallReadMinimalProgram(lines)

SpecParse == InitParse /\ [][NextParse]_vars

\* the call of readMinimalProgram that returned, its lines and its table
Parsed == Len(ops) = 1 /\ LastCall.op = "readMinimalProgram" /\ pc = "idle"

ParsedLines == LastCall.arg

ParsedTable == LastCall.ret[1]

(***************************************************************************)
(* C15: readMinimalProgram maps each non-blank line 's v a n' with a in    *)
(* {L, R, 0, 1} to the table entry (s, v) -> (kind, param, n): R gives     *)
(* ('R', 1, n), L gives ('L', 1, n), 0 gives ('W', 0, n), 1 gives          *)
(* ('W', 1, n); blank lines add no entry, and the table has exactly the    *)
(* keys (s, v) that occur in the lines.  C15_EachLine states it of every   *)
(* line; C15_LastLine states it of every line that no later line with the  *)
(* same (s, v) follows.                                                    *)
(***************************************************************************)
C15_Stated(l) == l.form = "entry" /\ l.a \in {<<"R">>, <<"L">>, <<"0">>, <<"1">>}

C15_Entry(l) ==
    CASE l.a = <<"R">> -> <<"R", 1, l.n>>
      [] l.a = <<"L">> -> <<"L", 1, l.n>>
      [] l.a = <<"0">> -> <<"W", 0, l.n>>
      [] l.a = <<"1">> -> <<"W", 1, l.n>>

C15_Keys(lines) ==
    {<<lines[i].s, lines[i].v>> : i \in {j \in 1..Len(lines) : lines[j].form = "entry"}}

\* no later line of the file has the key of line i
C15_IsLast(lines, i) ==
    \A j \in (i + 1)..Len(lines) :
        lines[j].form = "entry" => <<lines[j].s, lines[j].v>> # <<lines[i].s, lines[i].v>>

\* every line of the file is blank or an instruction with a in {L, R, 0, 1}
C15_AllStated(lines) ==
    \A i \in 1..Len(lines) : lines[i].form = "blank" \/ C15_Stated(lines[i])

C15_EachLine ==
    (Parsed /\ C15_AllStated(ParsedLines)) =>
        /\ \A i \in 1..Len(ParsedLines) :
              LET l == ParsedLines[i] IN
              C15_Stated(l) =>
                  /\ <<l.s, l.v>> \in DOMAIN ParsedTable
                  /\ ParsedTable[<<l.s, l.v>>] = C15_Entry(l)
        /\ DOMAIN ParsedTable = C15_Keys(ParsedLines)

C15_LastLine ==
    Parsed =>
        /\ \A i \in 1..Len(ParsedLines) :
              LET l == ParsedLines[i] IN
              (C15_Stated(l) /\ C15_IsLast(ParsedLines, i)) =>
                  /\ <<l.s, l.v>> \in DOMAIN ParsedTable
                  /\ ParsedTable[<<l.s, l.v>>] = C15_Entry(l)
        /\ DOMAIN ParsedTable = C15_Keys(ParsedLines)

C15_Witness ==
    /\ Parsed
    /\ ParsedLines = <<Line("entry", 12, 0, <<"R">>, 1), Line("entry", 12, 0, <<"0">>, 2)>>
    /\ DOMAIN ParsedTable = {<<12, 0>>}
    /\ ParsedTable[<<12, 0>>] = <<"W", 0, 2>>

(***************************************************************************)
(* C16: write(v) changes only the cell at the head index: every other      *)
(* cell, the tape length and the head position are unchanged; read()       *)
(* changes nothing.  Stated of the direct calls and of the write of a 'W'  *)
(* entry; a negative head in -len..-1 indexes from the right end, as       *)
(* Python does, and a call that raises changes nothing.                    *)
(***************************************************************************)
C16_IsCall(op) == Len(ops') = Len(ops) + 1 /\ ops'[Len(ops')].op = op

\* the position, counted from 1, of the cell that index h names
C16_At(c, h) == IF h >= 0 THEN h + 1 ELSE Len(c) + h + 1

C16_Written(val) ==
    /\ head' = head
    /\ Len(cells') = Len(cells)
    /\ \A i \in 1..Len(cells) : i # C16_At(cells, head) => cells'[i] = cells[i]
    /\ pc' # "raised" => cells'[C16_At(cells, head)] = val
    /\ pc' = "raised" => cells' = cells

C16_Step ==
    /\ C16_IsCall("write") => C16_Written(ops'[Len(ops')].arg)
    /\ (IsIteration /\ program[Key][1] = "W") => C16_Written(program[Key][2])
    /\ C16_IsCall("read") => (cells' = cells /\ head' = head)

C16_WriteFrame == [][C16_Step]_vars

C16_Witness ==
    /\ Len(ops) = 2
    /\ ops[1] = Call("write", 1, <<>>)
    /\ ops[2] = Call("read", 0, <<1>>)
    /\ ctor.arg = <<0, 0>>
    /\ ctor.initHead = 1
    /\ cells = <<0, 1>>
    /\ head = 1

(***************************************************************************)
(* C17: tracing only observes the run: two runs of the same program with   *)
(* the same step limit from equal initial cells and head, one with debug = *)
(* True and one with debug = False, execute the same number of transitions *)
(* and end with identical cells and head; the last trace entry of the      *)
(* traced run equals that final head and tape, and the untraced run        *)
(* returns no value.  Every finished run, traced or not, is compared with  *)
(* the untraced run of its program, limit, initial cells and head, so a    *)
(* traced run and an untraced run of the same inputs agree with each other.*)
(***************************************************************************)
C17_Twin == runUntraced(InitCells, ctor.initHead, 1, 0, program, step_limit)

C17_SameEnd ==
    /\ cells = C17_Twin.cells
    /\ head = C17_Twin.head
    /\ step = C17_Twin.step
    /\ state = C17_Twin.state

C17_TraceOnlyObserves ==
    /\ (InRun /\ pc = "returned") =>
          /\ ~C17_Twin.raised
          /\ C17_SameEnd
          /\ debug => /\ ret[Len(ret)].head = head
                      /\ ret[Len(ret)].tape = cells
          /\ ~debug => ret = <<>>
    /\ (InRun /\ pc = "raised") => (C17_Twin.raised /\ C17_SameEnd)

C17_Witness ==
    /\ InRun
    /\ pc = "returned"
    /\ debug
    /\ program = WriteThenRight
    /\ InitCells = <<0>>
    /\ ctor.initHead = 0
    /\ step_limit = 10
    /\ step = 2
    /\ C17_Twin.step = 2
    /\ cells = <<1, 0>>
    /\ C17_Twin.cells = <<1, 0>>
    /\ head = 1
    /\ C17_Twin.head = 1
    /\ ret[Len(ret)] = Snapshot(2, 1, <<1, 0>>)

(***************************************************************************)
(* C18: a table entry whose action kind is none of 'R', 'L', 'W' is not    *)
(* rejected: the iteration that matches it leaves the cells and the head   *)
(* unchanged, still sets state to the entry's next state, still counts as  *)
(* one step against step_limit and, when tracing, still appends one trace  *)
(* entry.                                                                  *)
(***************************************************************************)
\* the while test has passed on an entry of another kind
C18_Matched ==
    /\ pc = "loop"
    /\ InRange(cells, head)
    /\ LoopTest
    /\ program[Key][1] \notin {"R", "L", "W"}

C18_Step ==
    C18_Matched =>
        /\ pc' = "loop"
        /\ cells' = cells
        /\ head' = head
        /\ state' = program[Key][3]
        /\ step' = step + 1
        /\ debug => log' = Append(log, Snapshot(program[Key][3], head, cells))
        /\ ~debug => log' = log

C18_OtherKindIsNoOp == [][C18_Step]_vars

C18_Witness ==
    /\ InRun
    /\ pc = "returned"
    /\ debug
    /\ DOMAIN program = {<<1, 1>>}
    /\ program[<<1, 1>>] = Entry("X", 0, 1)
    /\ InitCells = <<1>>
    /\ ctor.initHead = 0
    /\ step_limit = 2
    /\ step = 2
    /\ cells = <<1>>
    /\ head = 0
    /\ state = 1
    /\ Len(ret) = 3

(***************************************************************************)
(* C19: readMinimalProgram does not reject an unrecognized action token:   *)
(* for every line 's v a n' whose a is none of R, L, 0 (for example 2, X   *)
(* or lowercase r), the entry built is (s, v) -> ('W', 1, n), the same     *)
(* entry as for a = 1.  A file of instructions and blank lines is read     *)
(* without an exception whatever its action tokens; the entry of such a    *)
(* line is in the table unless a later line has its (s, v); and the table  *)
(* is the one read from the file with that token replaced by 1.            *)
(***************************************************************************)
C19_Unrecognized(l) == l.form = "entry" /\ l.a \notin {<<"R">>, <<"L">>, <<"0">>}

C19_WithOne(lines, i) == [lines EXCEPT ![i].a = <<"1">>]

C19_TokenAccepted ==
    (Len(ops) = 1 /\ LastCall.op = "readMinimalProgram") =>
        LET lines == LastCall.arg IN
        /\ (\A i \in 1..Len(lines) : lines[i].form \in {"entry", "blank"}) => pc = "idle"
        /\ pc = "idle" =>
              \A i \in 1..Len(lines) :
                  LET l == lines[i] IN
                  C19_Unrecognized(l) =>
                      /\ <<l.s, l.v>> \in DOMAIN ParsedTable
                      /\ C15_IsLast(lines, i) => ParsedTable[<<l.s, l.v>>] = <<"W", 1, l.n>>
                      /\ ParsedTable = readMinimalProgram(FileText(C19_WithOne(lines, i))).prog

C19_Witness ==
    /\ Parsed
    /\ ParsedLines = <<Line("entry", 1, 1, <<"X">>, 2), Line("entry", 12, 0, <<"r">>, 1)>>
    /\ DOMAIN ParsedTable = {<<1, 1>>, <<12, 0>>}
    /\ ParsedTable[<<1, 1>>] = <<"W", 1, 2>>
    /\ ParsedTable[<<12, 0>>] = <<"W", 1, 1>>

====
